---- MODULE Spec2Model ----
(***************************************************************************)
(* Task orchestration of the Servimed scraping & orders service:           *)
(*   - POST /scraping      create_task       (api/main.py)                 *)
(*   - GET  /scraping/{id} get_task_status   (api/main.py)                 *)
(*   - the Celery worker running execute_scraping (tasks/scraping_tasks.py)*)
(*   - the request models (models/scraping_task.py, models/order.py)       *)
(*                                                                         *)
(* Conventions.  An optional value is a sequence of length <= 1: <<>> is   *)
(* an absent field / Python None, <<v>> a present value.  A Python string  *)
(* is a sequence of characters (so that strip() and startswith() are       *)
(* computed, not assumed); a URL is a sequence whose first element is its  *)
(* scheme prefix.  progress is kept in hundredths (0.0 -> 0, 1.0 -> 100).  *)
(* Wall-clock values (created_at, extraction_time) are not modelled.       *)
(***************************************************************************)
EXTENDS Integers, Sequences, FiniteSets, TLC

\* ------------------------------------------------------------------ bounds
MaxTasks == 1      \* task ids create_task may hand out
MaxItems == 2      \* longest produtos list of a submitted body
MaxQty == 1        \* largest quantidade of a submitted item (0..MaxQty)
MaxProducts == 1   \* longest product list the products endpoint returns
MaxLosses == 1     \* worker losses (redeliveries) in one behaviour
MaxClock == 2      \* latest instant the wall clock shows
MaxRecords == 2    \* longest list the spider gets from the products endpoint

\* celery worker --concurrency=2
NumWorkers == 2

VARIABLES nextId, queue, backend, workers, lastView, runs, losses, lastSubmit,
          order, api, spider

vars == <<nextId, queue, backend, workers, lastView, runs, losses, lastSubmit,
          order, api, spider>>

None == <<>>
Some(v) == <<v>>

\* --------------------------------------------------------- string helpers
RECURSIVE LStrip(_)
LStrip(s) == IF s = <<>> THEN s
             ELSE IF Head(s) = " " THEN LStrip(Tail(s)) ELSE s

RECURSIVE RStrip(_)
RStrip(s) == IF s = <<>> THEN s
             ELSE IF s[Len(s)] = " " THEN RStrip(SubSeq(s, 1, Len(s) - 1)) ELSE s

\* str.strip()
Strip(s) == RStrip(LStrip(s))

\* v.startswith(("http://", "https://"))
StartsWithHttp(v) == Len(v) >= 1 /\ v[1] \in {"http://", "https://"}

\* ------------------------------------------------------- submitted bodies
Strings == {<<>>, <<" ">>, <<"a">>}
Passwords == {<<>>, <<"x">>}
Urls == {<<"ftp://", "cb">>, <<"https://", "cb">>}
OrderIds == {<<"P", "1">>}
Items == [gtin : {"G1"}, codigo : {"C1"}, quantidade : 0..MaxQty]
ItemLists == UNION {[1..n -> Items] : n \in 0..MaxItems}

Opt(S) == {None} \cup {Some(v) : v \in S}

\* every JSON body the endpoint is exercised with
Bodies == [usuario : Opt(Strings), senha : Opt(Passwords),
           id_pedido : Opt(OrderIds), produtos : Opt(ItemLists),
           callback_url : Opt(Urls)]

EmptyBody == [usuario |-> None, senha |-> None, id_pedido |-> None,
              produtos |-> None, callback_url |-> None]

GoodItem == [gtin |-> "G1", codigo |-> "C1", quantidade |-> 1]

\* the bodies used while following tasks through the worker: a scraping
\* request, an order request with an http(s) callback, an order request
\* with another callback scheme, and a body both models refuse
SampleBodies ==
    { [EmptyBody EXCEPT !.usuario = Some(<<"a">>), !.senha = Some(<<"x">>),
                        !.callback_url = Some(<<"https://", "cb">>)],
      [usuario |-> Some(<<"a">>), senha |-> Some(<<"x">>),
       id_pedido |-> Some(<<"P", "1">>), produtos |-> Some(<<GoodItem>>),
       callback_url |-> Some(<<"https://", "cb">>)],
      [usuario |-> Some(<<"a">>), senha |-> Some(<<"x">>),
       id_pedido |-> Some(<<"P", "1">>), produtos |-> Some(<<GoodItem>>),
       callback_url |-> Some(<<"ftp://", "cb">>)],
      EmptyBody }

\* ---------------------------------------------------------- request models
\* ScrapingTaskRequest: three required fields and their validators; any
\* other key of the body is ignored.  <<>> when validation fails.
ScrapingTaskRequest(b) ==
    IF b.usuario = None \/ b.senha = None \/ b.callback_url = None THEN None
    ELSE LET u == b.usuario[1]
             s == b.senha[1]
             c == b.callback_url[1]
         IN  IF u = <<>> \/ Len(Strip(u)) < 1 THEN None
             ELSE IF s = <<>> \/ Len(Strip(s)) < 1 THEN None
             ELSE IF c = <<>> \/ ~StartsWithHttp(c) THEN None
             ELSE Some([usuario |-> Strip(u), senha |-> s,
                        callback_url |-> Strip(c)])

\* ProductItem: quantidade >= 1
ProductItem(i) == i.quantidade >= 1

\* OrderRequest: five required fields, at least one item, every item valid;
\* no validator on usuario, senha or callback_url.
OrderRequest(b) ==
    IF b.usuario = None \/ b.senha = None \/ b.id_pedido = None
       \/ b.produtos = None \/ b.callback_url = None THEN None
    ELSE LET p == b.produtos[1]
         IN  IF Len(p) < 1 THEN None
             ELSE IF \E k \in 1..Len(p) : ~ProductItem(p[k]) THEN None
             ELSE Some([usuario |-> b.usuario[1], senha |-> b.senha[1],
                        id_pedido |-> b.id_pedido[1], produtos |-> p,
                        callback_url |-> b.callback_url[1]])

\* request: Union[ScrapingTaskRequest, OrderRequest] -- the members are
\* tried left to right and the first that validates is the request object
ParseRequest(b) ==
    IF ScrapingTaskRequest(b) # None THEN ScrapingTaskRequest(b)
    ELSE OrderRequest(b)

\* request.dict(): the fields of the model object, as a body
AsBody(r) ==
    [f \in DOMAIN EmptyBody |-> IF f \in DOMAIN r THEN Some(r[f]) ELSE None]

\* hasattr(request, "produtos") and hasattr(request, "id_pedido")
IsOrderTask(r) == "produtos" \in DOMAIN r /\ "id_pedido" \in DOMAIN r

\* the functions of tasks/ that carry @celery_app.task and so have .delay
RegisteredTasks == {"execute_scraping", "test_task"}

HasDelay(name) == name \in RegisteredTasks

\* ------------------------------------------------------------ create_task
NoSubmit == [called |-> FALSE, body |-> EmptyBody, code |-> 0,
             branch |-> "none", enqueued |-> "none", task_id |-> 0,
             status |-> "none"]

Rejected(b, code, branch) ==
    [called |-> TRUE, body |-> b, code |-> code, branch |-> branch,
     enqueued |-> "none", task_id |-> 0, status |-> "none"]

Accepted(b, branch, name, id) ==
    [called |-> TRUE, body |-> b, code |-> 200, branch |-> branch,
     enqueued |-> name, task_id |-> id, status |-> "pending"]

Message(id, name, data) == [id |-> id, name |-> name, task_data |-> data]

\* Dispatch with the message of a scraping request sent twice
Dispatch_Twice(b, id) ==
    IF ScrapingTaskRequest(b) = None
    THEN [reply |-> Rejected(b, 422, "none"), sent |-> <<>>]
    ELSE [reply |-> Accepted(b, "scraping", "execute_scraping", id),
          sent |-> <<Message(id, "execute_scraping",
                             [task_type |-> "scraping"]
                                 @@ ScrapingTaskRequest(b)[1]),
                     Message(id, "execute_scraping",
                             [task_type |-> "scraping"]
                                 @@ ScrapingTaskRequest(b)[1])>>]

\* the handler of POST /scraping on body b when id is the next task id:
\* its reply and the messages its .delay() call sends
Dispatch(b, id) ==
    LET parsed == ParseRequest(b)
    IN  IF parsed = None
        THEN \* request validation fails before the handler runs
             [reply |-> Rejected(b, 422, "none"), sent |-> <<>>]
        ELSE LET request == parsed[1]
             IN  IF IsOrderTask(request)
                 THEN LET again == OrderRequest(AsBody(request))
                      IN  IF again = None \/ ~HasDelay("execute_order")
                          THEN [reply |-> Rejected(b, 500, "order"),
                                sent |-> <<>>]
                          ELSE [reply |-> Accepted(b, "order",
                                                   "execute_order", id),
                                sent |-> <<Message(id, "execute_order",
                                     [task_type |-> "order"] @@ again[1])>>]
                 ELSE LET again == ScrapingTaskRequest(AsBody(request))
                      IN  IF again = None \/ ~HasDelay("execute_scraping")
                          THEN [reply |-> Rejected(b, 500, "scraping"),
                                sent |-> <<>>]
                          ELSE [reply |-> Accepted(b, "scraping",
                                                   "execute_scraping", id),
                                sent |-> <<Message(id, "execute_scraping",
                                     [task_type |-> "scraping"] @@ again[1])>>]

\* POST /scraping with JSON body b
create_task(b) ==
    /\ nextId <= MaxTasks
    /\ LET d == Dispatch(b, nextId)
       IN  /\ queue' = queue \o d.sent
           /\ nextId' = nextId + Len(d.sent)
           /\ lastSubmit' = d.reply
    /\ UNCHANGED <<backend, workers, lastView, runs, losses, order, api,
                   spider>>

\* ------------------------------------------------------ result backend
TaskIds == 0..MaxTasks          \* 0 is an id create_task never hands out
Issued == 1..(nextId - 1)       \* the ids create_task has returned
Workers == 1..NumWorkers

\* what the backend answers for an id nothing was ever stored under
PendingMeta == [state |-> "PENDING", info |-> None]

\* celery_app.AsyncResult(task_id): a handle on the backend entry of the id
AsyncResult(id) == backend[id]

\* `not task_result`: an AsyncResult object is truthy whatever its id
NotTaskResult(r) == FALSE

\* ---------------------------------------------------- external responses
SignupResponses == [exc : BOOLEAN, status_code : {200, 201, 400, 500},
                    registered : BOOLEAN]
AuthResponses == [exc : BOOLEAN, status_code : {200, 401},
                  access_token : {None, Some(""), Some("tok")}]
ProductLists == {[k \in 1..n |-> k] : n \in 0..MaxProducts}
ProductResponses == [exc : BOOLEAN, status_code : {200, 500},
                     is_list : BOOLEAN, items : ProductLists]
\* decodes says whether the body of the answer is JSON
CallbackResponses == [exc : BOOLEAN, status_code : {200, 201, 500},
                      decodes : BOOLEAN]

\* _create_user_signup: created, or already registered
_create_user_signup(r) ==
    IF r.exc THEN FALSE
    ELSE r.status_code \in {200, 201} \/ (r.status_code = 400 /\ r.registered)

\* _authenticate_oauth2: the access token, or None
_authenticate_oauth2(r) ==
    IF r.exc THEN None
    ELSE IF r.status_code = 200
         THEN IF r.access_token # None /\ r.access_token[1] # ""
              THEN r.access_token ELSE None
         ELSE None

\* _extract_products that returns the body of any answer that is a list
_extract_products_AnyStatus(r) ==
    IF r.exc THEN <<>>
    ELSE IF r.is_list THEN r.items ELSE <<>>

\* _extract_products: the product list, [] on every failure
_extract_products(r) ==
    IF r.exc THEN <<>>
    ELSE IF r.status_code = 200
         THEN IF r.is_list THEN r.items ELSE <<>>
         ELSE <<>>

\* _send_to_callback: the delivery outcome record
_send_to_callback(r) ==
    IF r.exc THEN [status |-> "error", status_code |-> None, response |-> None]
    ELSE IF r.status_code \in {200, 201}
         THEN IF ~r.decodes     \* response.json() raises inside the try
              THEN [status |-> "error", status_code |-> None,
                    response |-> None]
              ELSE [status |-> "success", status_code |-> Some(r.status_code),
                    response |-> Some("json")]
         ELSE [status |-> "warning", status_code |-> Some(r.status_code),
               response |-> Some("text")]

\* ScrapingResult(...).dict()
ScrapingResult(task_id, products, callback_response) ==
    [task_id |-> task_id, total_products |-> Len(products),
     products |-> products, callback_sent |-> TRUE,
     callback_response |-> callback_response]

\* ------------------------------------------------------------- the worker
\* the external requests a run has made so far, by operation
NoCalls == [signup |-> 0, auth |-> 0, extract |-> 0, callback |-> 0]

\* CallbackPayload with the count left at zero
CallbackPayload_ZeroCount(products, auth_token) ==
    [products |-> products, total_count |-> 0,
     authorization |-> <<"Bearer ", auth_token>>]

\* the body and the Authorization header _send_to_callback posts
\* CallbackPayload with the authorization of one fixed token
CallbackPayload_FixedToken(products, auth_token) ==
    [products |-> products, total_count |-> Len(products),
     authorization |-> <<"Bearer ", "tok">>]

CallbackPayload(products, auth_token) ==
    [products |-> products, total_count |-> Len(products),
     authorization |-> <<"Bearer ", auth_token>>]

\* headers is the Authorization header of the products request, if the run
\* made one; posted is the request the run sent to the callback url, if it
\* sent one
IdleWorker == [pc |-> "idle", msg |-> None, auth_token |-> None,
               headers |-> None, products |-> <<>>, calls |-> NoCalls,
               posted |-> None]

\* a worker takes the message at the head of the queue; with late
\* acknowledgement the message stays unacknowledged while the task runs
Claim(w) ==
    /\ workers[w].pc = "idle"
    /\ queue # <<>>
    /\ LET m == Head(queue)
       IN  /\ workers' = [workers EXCEPT ![w] =
                  [IdleWorker EXCEPT !.pc = "signup", !.msg = Some(m)]]
           /\ runs' = [runs EXCEPT ![m.id] = @ + 1]
    /\ queue' = Tail(queue)
    /\ UNCHANGED <<nextId, backend, lastView, losses, lastSubmit, order, api,
                   spider>>

\* the task raised: except-clause of execute_scraping, then the worker
\* stores FAILURE with the exception
StoreFailureOf(ws, w, reason, op) ==
    /\ backend' = [backend EXCEPT ![ws[w].msg[1].id] =
           [state |-> "FAILURE",
            info |-> Some([msg |-> <<"Erro na tarefa de scraping: ", reason>>])]]
    /\ workers' = [ws EXCEPT ![w].pc = "ack", ![w].calls[op] = @ + 1]

StoreFailure(w, reason, op) == StoreFailureOf(workers, w, reason, op)

\* AfterSignup with a refused signup ending the run
AfterSignup_Gate(signup_success) ==
    IF signup_success THEN "auth" ELSE "raise"

\* where execute_scraping goes after _create_user_signup returned: a
\* signup that did not succeed is logged and the run goes on
AfterSignup(signup_success) == "auth"

\* execute_scraping, step 1: signup
SignupFrom(w, responses) ==
    /\ workers[w].pc = "signup"
    /\ \E signup_success \in {_create_user_signup(r) : r \in responses} :
              IF AfterSignup(signup_success) = "raise"
              THEN StoreFailure(w, "Falha no signup", "signup")
              ELSE /\ workers' = [workers EXCEPT
                                     ![w].pc = AfterSignup(signup_success),
                                     ![w].calls.signup = @ + 1]
                   /\ UNCHANGED backend
    /\ UNCHANGED <<nextId, queue, lastView, runs, losses, lastSubmit, order,
                   api, spider>>

Signup(w) == SignupFrom(w, SignupResponses)

\* AfterAuth with the run going on to extraction without a token
AfterAuth_Proceed(tok) == "extract"

\* AfterAuth with the run left waiting when no token came back
AfterAuth_Wait(tok) == IF tok = None THEN "waiting" ELSE "extract"

\* where execute_scraping goes after _authenticate_oauth2 returned tok
AfterAuth(tok) == IF tok = None THEN "raise" ELSE "extract"

\* execute_scraping, step 2: OAuth2 authentication
AuthenticateFrom(w, responses) ==
    /\ workers[w].pc = "auth"
    /\ \E auth_token \in {_authenticate_oauth2(r) : r \in responses} :
              IF AfterAuth(auth_token) = "raise"
              THEN StoreFailure(w, "Falha na autenticação OAuth2", "auth")
              ELSE /\ workers' = [workers EXCEPT ![w].pc = AfterAuth(auth_token),
                                                 ![w].auth_token = auth_token,
                                                 ![w].calls.auth = @ + 1]
                   /\ UNCHANGED backend
    /\ UNCHANGED <<nextId, queue, lastView, runs, losses, lastSubmit, order,
                   api, spider>>

Authenticate(w) == AuthenticateFrom(w, AuthResponses)

\* f"Bearer {auth_token}"
Bearer(auth_token) ==
    <<"Bearer ", IF auth_token = None THEN "None" ELSE auth_token[1]>>

\* execute_scraping, step 3: product extraction
Extract(w) ==
    /\ workers[w].pc = "extract"
    /\ \E products \in {_extract_products(r) : r \in ProductResponses} :
          LET run == [workers EXCEPT
                         ![w].headers = Some(Bearer(workers[w].auth_token))]
          IN  IF products = <<>>
              THEN StoreFailureOf(run, w, "Nenhum produto extraído", "extract")
              ELSE /\ workers' = [run EXCEPT ![w].pc = "callback",
                                             ![w].products = products,
                                             ![w].calls.extract = @ + 1]
                   /\ UNCHANGED backend
    /\ UNCHANGED <<nextId, queue, lastView, runs, losses, lastSubmit, order,
                   api, spider>>

\* execute_scraping, step 4: callback delivery, then the result is returned
\* and the worker stores SUCCESS with it
Callback(w) ==
    /\ workers[w].pc = "callback"
    /\ \E callback_response \in
              {_send_to_callback(r) : r \in CallbackResponses} :
          LET task_id == workers[w].msg[1].id
          IN  backend' = [backend EXCEPT ![task_id] =
                  [state |-> "SUCCESS",
                   info |-> Some(ScrapingResult(task_id, workers[w].products,
                                                callback_response))]]
    /\ workers' = [workers EXCEPT
           ![w].pc = "ack",
           ![w].calls.callback = @ + 1,
           ![w].posted = Some(CallbackPayload(workers[w].products,
                                              workers[w].auth_token[1]))]
    /\ UNCHANGED <<nextId, queue, lastView, runs, losses, lastSubmit, order,
                   api, spider>>

\* task_acks_late: the message is acknowledged once the task has run
Ack(w) ==
    /\ workers[w].pc = "ack"
    /\ workers' = [workers EXCEPT ![w] = IdleWorker]
    /\ UNCHANGED <<nextId, queue, backend, lastView, runs, losses, lastSubmit,
                   order, api, spider>>

\* the worker is lost while it holds an unacknowledged message: the broker
\* delivers the message again
WorkerLost(w) ==
    /\ workers[w].pc # "idle"
    /\ losses < MaxLosses
    /\ queue' = <<workers[w].msg[1]>> \o queue
    /\ workers' = [workers EXCEPT ![w] = IdleWorker]
    /\ losses' = losses + 1
    /\ UNCHANGED <<nextId, backend, lastView, runs, lastSubmit, order, api,
                   spider>>

\* -------------------------------------------------------- get_task_status
NoView == [code |-> 0, task_id |-> 0]

\* meta.get(key, default) on `task_result.info or {}`
MetaGet(info, key, default) ==
    IF info # None /\ key \in DOMAIN info[1] THEN info[1][key] ELSE default

\* str(task_result.info): None, an exception, or a result dict
Str(info) == IF info = None THEN <<"None">>
             ELSE IF "msg" \in DOMAIN info[1] THEN info[1].msg
             ELSE <<"{...}">>

\* Projection with the PENDING branch carrying the SUCCESS progress
Projection_PendingFull(meta) ==
    CASE meta.state = "PENDING" ->
           [status |-> "pending", progress |-> 100,
            message |-> <<"Tarefa aguardando processamento">>]
      [] meta.state = "SUCCESS" ->
           [status |-> "completed", progress |-> 100,
            message |-> <<"Tarefa concluída com sucesso">>]
      [] meta.state = "FAILURE" ->
           [status |-> "failed", progress |-> 0,
            message |-> <<"Tarefa falhou: ">> \o Str(meta.info)]
      [] OTHER ->
           [status |-> "unknown", progress |-> 0,
            message |-> <<"Status desconhecido">>]

\* Projection with the FAILURE branch carrying the SUCCESS progress
Projection_FailedFull(meta) ==
    CASE meta.state = "PENDING" ->
           [status |-> "pending", progress |-> 0,
            message |-> <<"Tarefa aguardando processamento">>]
      [] meta.state = "SUCCESS" ->
           [status |-> "completed", progress |-> 100,
            message |-> <<"Tarefa concluída com sucesso">>]
      [] meta.state = "FAILURE" ->
           [status |-> "failed", progress |-> 100,
            message |-> <<"Tarefa falhou: ">> \o Str(meta.info)]
      [] OTHER ->
           [status |-> "unknown", progress |-> 0,
            message |-> <<"Status desconhecido">>]

\* Projection with the FAILURE branch carrying half progress
Projection_FailedHalf(meta) ==
    [Projection_FailedFull(meta) EXCEPT
        !.progress = IF meta.state = "FAILURE" THEN 50 ELSE @]

\* Projection with the STARTED state taken for a task in progress
Projection_StartedProcessing(meta) ==
    CASE meta.state = "PENDING" ->
           [status |-> "pending", progress |-> 0,
            message |-> <<"Tarefa aguardando processamento">>]
      [] meta.state \in {"PROGRESS", "STARTED"} ->
           [status |-> "processing",
            progress |-> MetaGet(meta.info, "progress", 0),
            message |-> MetaGet(meta.info, "message", <<"Processando...">>)]
      [] meta.state = "SUCCESS" ->
           [status |-> "completed", progress |-> 100,
            message |-> <<"Tarefa concluída com sucesso">>]
      [] meta.state = "FAILURE" ->
           [status |-> "failed", progress |-> 0,
            message |-> <<"Tarefa falhou: ">> \o Str(meta.info)]
      [] OTHER ->
           [status |-> "unknown", progress |-> 0,
            message |-> <<"Status desconhecido">>]

\* the status, progress and message chosen from the backend state
Projection(meta) ==
    CASE meta.state = "PENDING" ->
           [status |-> "pending", progress |-> 0,
            message |-> <<"Tarefa aguardando processamento">>]
      [] meta.state = "PROGRESS" ->
           [status |-> "processing",
            progress |-> MetaGet(meta.info, "progress", 0),
            message |-> MetaGet(meta.info, "message", <<"Processando...">>)]
      [] meta.state = "SUCCESS" ->
           [status |-> "completed", progress |-> 100,
            message |-> <<"Tarefa concluída com sucesso">>]
      [] meta.state = "FAILURE" ->
           [status |-> "failed", progress |-> 0,
            message |-> <<"Tarefa falhou: ">> \o Str(meta.info)]
      [] OTHER ->
           [status |-> "unknown", progress |-> 0,
            message |-> <<"Status desconhecido">>]

\* StatusView with error copied whatever the status
StatusView_ErrorAlways(task_id, meta) ==
    [code |-> 200, task_id |-> task_id, status |-> Projection(meta).status,
     progress |-> Projection(meta).progress, message |-> Projection(meta).message,
     started_at |-> None, completed_at |-> None,
     error |-> Some(Str(meta.info)),
     result |-> IF Projection(meta).status = "completed" THEN meta.info ELSE None]

\* the ScrapingTaskStatus response built from the backend entry
StatusView(task_id, meta) ==
    LET p == Projection(meta)
    IN  IF p.progress < 0 \/ p.progress > 100
        THEN [code |-> 500, task_id |-> task_id]   \* validate_progress raises
        ELSE [code |-> 200, task_id |-> task_id, status |-> p.status,
              progress |-> p.progress, message |-> p.message,
              started_at |-> None, completed_at |-> None,
              error |-> IF p.status = "failed" THEN Some(Str(meta.info)) ELSE None,
              result |-> IF p.status = "completed" THEN meta.info ELSE None]

\* GET /scraping/{task_id}; lastView is the response of the latest call
get_task_status(task_id) ==
    /\ LET task_result == AsyncResult(task_id)
       IN  lastView' =
               IF NotTaskResult(task_result) THEN [code |-> 404, task_id |-> task_id]
               ELSE StatusView(task_id, task_result)
    /\ UNCHANGED <<nextId, queue, backend, workers, runs, losses, lastSubmit,
                   order, api, spider>>

\* ------------------------------------------- the handlers, read by read
\* The API process runs one handler at a time; the workers are other
\* processes and take steps between the broker and backend accesses of a
\* handler.  api is the handler in progress: the AsyncResult cache, the
\* backend entries its reads returned, the response under construction
\* (the response itself once pc is "done") and, for create_task, the reply
\* about to be returned.  Nothing of a handler stays once it has responded.
IdleApi == [pc |-> "idle", task_id |-> 0, cache |-> None, seen |-> {},
            view |-> NoView, reply |-> NoSubmit]

\* the states after which an AsyncResult keeps the entry it has read
ReadyStates == {"SUCCESS", "FAILURE", "REVOKED"}

\* an AsyncResult that never keeps what it has read
MaybeSetCache_Never(meta) == None

\* the entry is kept once the task is ready
MaybeSetCache(meta) == IF meta.state \in ReadyStates THEN Some(meta) ELSE None

\* task_result.state / .info / .result: the cached entry, else the backend's
ReadMeta(a) == IF a.cache # None THEN a.cache[1] ELSE backend[a.task_id]

\* ScrapingTaskStatus(...) of lines 163-173, then the read that follows it
WithLocals(a, status, progress, message) ==
    IF progress < 0 \/ progress > 100
    THEN [a EXCEPT !.pc = "done",
                   !.view = [code |-> 500, task_id |-> a.task_id]]
    ELSE [a EXCEPT
            !.pc = IF status = "completed" THEN "result"
                   ELSE IF status = "failed" THEN "error" ELSE "done",
            !.view = [code |-> 200, task_id |-> a.task_id, status |-> status,
                      progress |-> progress, message |-> message,
                      started_at |-> None, completed_at |-> None,
                      error |-> None, result |-> None]]

\* the places of get_task_status that read the AsyncResult
StatusReads == {"state1", "state2", "info2", "state3", "state4", "info4",
                "result", "error"}

\* one read of the AsyncResult by handler a, and the code up to the next one
StatusAdvance(a) ==
    LET meta == ReadMeta(a)
        a1 == [a EXCEPT
                 !.cache = IF a.cache # None THEN a.cache
                           ELSE MaybeSetCache(meta),
                 !.seen = @ \cup {meta}]
    IN  CASE a.pc = "state1" ->
               IF meta.state = "PENDING"
               THEN WithLocals(a1, "pending", 0,
                               <<"Tarefa aguardando processamento">>)
               ELSE [a1 EXCEPT !.pc = "state2"]
          [] a.pc = "state2" ->
               IF meta.state = "PROGRESS" THEN [a1 EXCEPT !.pc = "info2"]
               ELSE [a1 EXCEPT !.pc = "state3"]
          [] a.pc = "info2" ->
               WithLocals(a1, "processing", MetaGet(meta.info, "progress", 0),
                          MetaGet(meta.info, "message", <<"Processando...">>))
          [] a.pc = "state3" ->
               IF meta.state = "SUCCESS"
               THEN WithLocals(a1, "completed", 100,
                               <<"Tarefa concluída com sucesso">>)
               ELSE [a1 EXCEPT !.pc = "state4"]
          [] a.pc = "state4" ->
               IF meta.state = "FAILURE" THEN [a1 EXCEPT !.pc = "info4"]
               ELSE WithLocals(a1, "unknown", 0, <<"Status desconhecido">>)
          [] a.pc = "info4" ->
               WithLocals(a1, "failed", 0,
                          <<"Tarefa falhou: ">> \o Str(meta.info))
          [] a.pc = "result" ->
               [a1 EXCEPT !.pc = "done", !.view.result = meta.info]
          [] a.pc = "error" ->
               [a1 EXCEPT !.pc = "done", !.view.error = Some(Str(meta.info))]

\* reads answered by the cache of the AsyncResult touch nothing shared: a
\* handler that already holds a cached entry runs on to its response
RECURSIVE StatusRun(_)
StatusRun(a) ==
    LET a1 == StatusAdvance(a)
    IN  IF a1.pc = "done" \/ a.cache = None THEN a1 ELSE StatusRun(a1)

\* the handler that has responded is over
Responded(a) == IF a.pc = "done" THEN IdleApi ELSE a

\* the handler of GET /scraping/{task_id} as it is entered
StatusCall(task_id) == [IdleApi EXCEPT !.pc = "state1", !.task_id = task_id]

\* GET /scraping/{task_id} is called: the handler runs up to and including
\* its first read of task_result.state
get_task_status_begin(task_id) ==
    /\ api.pc = "idle"
    /\ LET a == StatusRun(StatusCall(task_id))
       IN  api' = Responded(a)
    /\ UNCHANGED <<nextId, queue, backend, workers, lastView, runs, losses,
                   lastSubmit, order, spider>>

\* the handler goes on to its next read; after the last one it responds
get_task_status_step ==
    /\ api.pc \in StatusReads
    /\ LET a == StatusRun(api)
       IN  api' = Responded(a)
    /\ UNCHANGED <<nextId, queue, backend, workers, lastView, runs, losses,
                   lastSubmit, order, spider>>

\* the task id is neither in the queue nor taken by a worker
Untouched(id) ==
    /\ runs[id] = 0
    /\ \A w \in Workers : workers[w].msg = None \/ workers[w].msg[1].id # id

\* POST /scraping is called: the handler runs up to and including .delay();
\* a request that is refused is answered at once
create_task_delay(b) ==
    /\ api.pc = "idle"
    /\ nextId <= MaxTasks
    /\ LET d == Dispatch(b, nextId)
       IN  /\ queue' = queue \o d.sent
           /\ nextId' = nextId + Len(d.sent)
           /\ IF d.sent = <<>>
              THEN /\ lastSubmit' = d.reply
                   /\ api' = IdleApi
              ELSE /\ api' = [IdleApi EXCEPT !.pc = "return", !.reply = d.reply]
                   /\ UNCHANGED lastSubmit
    /\ UNCHANGED <<backend, workers, lastView, runs, losses, order, spider>>

\* the handler builds the response and returns it
create_task_return ==
    /\ api.pc = "return"
    /\ lastSubmit' = api.reply
    /\ api' = IdleApi
    /\ UNCHANGED <<nextId, queue, backend, workers, lastView, runs, losses,
                   order, spider>>

\* ------------------------------------------------------ the order pipeline
\* preco_unitario 10.50, in hundredths
UnitPrice == 1050

\* the id of the simulated order create_challenge_order falls back to
FallbackOrderId == 999

\* the id the challenge API gives a created order
RemoteOrderId == 64

\* task_data as execute_order may be handed it: a key can be missing (None),
\* empty, or present; task_id is a key create_task never sets
\* the items of a task data dict: execute_order is handed a plain dict, and
\* the quantidade of an item may be null
TaskItems == [gtin : {"G1"}, codigo : {"C1"}, quantidade : Opt(0..MaxQty)]
TaskItemLists == UNION {[1..n -> TaskItems] : n \in 0..MaxItems}

OrderTaskData == [task_id : {None, Some(1)},
                  usuario : Opt({<<>>, <<"a">>}), senha : Opt({<<"x">>}),
                  id_pedido : Opt(OrderIds), produtos : Opt(TaskItemLists),
                  callback_url : Opt(Urls)]

NoTaskData == [task_id |-> None, usuario |-> None, senha |-> None,
               id_pedido |-> None, produtos |-> None, callback_url |-> None]

\* `not v` for a value task_data.get returned: None, "" and [] are falsy
Falsy(v) == v = None \/ v[1] = <<>>

\* the check of the required keys without the callback url
AllRequired_NoUrl(td) ==
    ~(Falsy(td.usuario) \/ Falsy(td.senha) \/ Falsy(td.id_pedido)
      \/ Falsy(td.produtos))

\* all([usuario, senha, id_pedido, produtos, callback_url])
AllRequired(td) ==
    ~(Falsy(td.usuario) \/ Falsy(td.senha) \/ Falsy(td.id_pedido)
      \/ Falsy(td.produtos) \/ Falsy(td.callback_url))

\* str(n) for a non-negative integer, as a sequence of characters
DigitChars == <<"0", "1", "2", "3", "4", "5", "6", "7", "8", "9">>

RECURSIVE StrInt(_)
StrInt(n) == IF n < 10 THEN <<DigitChars[n + 1]>>
             ELSE StrInt(n \div 10) \o <<DigitChars[(n % 10) + 1]>>

\* random.random() > 0.1
LoginOutcomes == BOOLEAN

\* simulate_servimed_login: the draw decides
simulate_servimed_login(draw) == draw

\* a purchase that stops after its first item
simulate_product_purchase_FirstOnly(produtos) ==
    IF \E k \in 1..Len(produtos) : produtos[k].quantidade = None
    THEN [status |-> "erro",
          error |-> <<"unsupported operand type(s) for *: ",
                      "'float' and 'NoneType'">>]
    ELSE [produtos_comprados |->
             [k \in 1..(IF Len(produtos) = 0 THEN 0 ELSE 1) |->
                 [gtin |-> produtos[k].gtin, codigo |-> produtos[k].codigo,
                  quantidade |-> produtos[k].quantidade,
                  status |-> "comprado", preco_unitario |-> UnitPrice,
                  preco_total |-> UnitPrice * produtos[k].quantidade[1]]],
          total_produtos |-> Len(produtos),
          status |-> "compra_simulada"]

\* simulate_product_purchase: one record per item, in input order; the
\* product 10.50 * quantidade raises for a null quantidade, and the except
\* clause returns the error dict
simulate_product_purchase(produtos) ==
    IF \E k \in 1..Len(produtos) : produtos[k].quantidade = None
    THEN [status |-> "erro",
          error |-> <<"unsupported operand type(s) for *: ",
                      "'float' and 'NoneType'">>]
    ELSE [produtos_comprados |->
             [k \in 1..Len(produtos) |->
                 [gtin |-> produtos[k].gtin, codigo |-> produtos[k].codigo,
                  quantidade |-> produtos[k].quantidade,
                  status |-> "comprado", preco_unitario |-> UnitPrice,
                  preco_total |-> UnitPrice * produtos[k].quantidade[1]]],
          total_produtos |-> Len(produtos),
          status |-> "compra_simulada"]

\* order_data["itens"]
OrderItens(produtos) ==
    [k \in 1..Len(produtos) |->
        [gtin |-> produtos[k].gtin, codigo |-> produtos[k].codigo,
         quantidade |-> produtos[k].quantidade]]

\* what the POST to the challenge API may answer; has_id says whether the
\* JSON body of a 201 answer carries an "id"
CreateResponses == [exc : BOOLEAN, status_code : {201, 500},
                    has_id : BOOLEAN]

\* create_challenge_order that has no order to give when the POST failed
create_challenge_order_NoFallback(produtos, r) ==
    [id |-> IF ~r.exc /\ r.status_code = 201 /\ r.has_id
            THEN Some(RemoteOrderId) ELSE None,
     codigo_fornecedor |-> None, status |-> None,
     itens |-> OrderItens(produtos)]

\* create_challenge_order: the created order, or the simulated one
create_challenge_order(produtos, r) ==
    IF ~r.exc /\ r.status_code = 201
    THEN [id |-> IF r.has_id THEN Some(RemoteOrderId) ELSE None,
          codigo_fornecedor |-> None, status |-> None,
          itens |-> OrderItens(produtos)]
    ELSE [id |-> Some(FallbackOrderId), codigo_fornecedor |-> None,
          status |-> Some("simulado"), itens |-> OrderItens(produtos)]

UpdateResponses == [exc : BOOLEAN, status_code : {200, 500}]

\* update_challenge_order: True on 200
update_challenge_order(r) == ~r.exc /\ r.status_code = 200

\* OrderResponse(codigo_confirmacao=id, status=...).dict(): the str field
\* takes the integer id as its decimal string
OrderResponse(id, status) ==
    [codigo_confirmacao |-> StrInt(id), status |-> status]

SendResponses == [exc : BOOLEAN, status_code : {200, 202, 204, 500}]

\* send_callback that takes every 2xx answer for a delivery
send_callback_Any2xx(r) == ~r.exc /\ r.status_code \in 200..299

\* send_callback: True on 200, 201 and 202
send_callback(r) == ~r.exc /\ r.status_code \in {200, 201, 202}

\* the dict execute_order returns from its except clause
FailedResult(td, e) ==
    [task_id |-> td.task_id, id_pedido |-> td.id_pedido, status |-> "failed",
     error |-> e, message |-> <<"Falha no processamento: ">> \o e]

\* the dict execute_order returns at its end
CompletedResult(td, challenge_order, confirmation, callback_success) ==
    [task_id |-> td.task_id, id_pedido |-> td.id_pedido,
     status |-> "completed", challenge_order_id |-> challenge_order.id[1],
     confirmation |-> confirmation, callback_sent |-> callback_success,
     message |-> <<"Pedido processado com sucesso">>]

\* what the worker stores for a task function: SUCCESS with the value it
\* returned, FAILURE with the exception it raised
TaskMeta(outcome, value) ==
    IF outcome = "returned" THEN [state |-> "SUCCESS", info |-> Some(value)]
    ELSE [state |-> "FAILURE", info |-> Some([msg |-> value])]

NoOrderCalls == [login |-> 0, purchase |-> 0, create |-> 0, update |-> 0,
                 confirm |-> 0, callback |-> 0]

\* the run of execute_order: its locals, the requests it has made, the
\* confirmation it posted and, at the end, how it ended and with what
IdleOrder == [pc |-> "idle", task_data |-> NoTaskData, order_result |-> None,
              login_success |-> None, challenge_order |-> None,
              update_result |-> None, confirmation |-> None,
              response |-> None, posted |-> None, calls |-> NoOrderCalls,
              outcome |-> "none", result |-> None]

\* execute_order ends in its except clause, which returns
OrderFails(run, e) ==
    order' = [run EXCEPT !.pc = "done", !.outcome = "returned",
                         !.result = Some(FailedResult(run.task_data, e))]

\* execute_order(task_data): the required keys are read and checked
execute_order(td) ==
    /\ order.pc = "idle"
    /\ LET run == [IdleOrder EXCEPT !.task_data = td]
       IN  IF ~AllRequired(td)
           THEN OrderFails(run, <<"Dados obrigatórios não fornecidos">>)
           ELSE order' = [run EXCEPT !.pc = "login"]
    /\ UNCHANGED <<nextId, queue, backend, workers, lastView, runs, losses,
                   lastSubmit, api, spider>>

\* the simulated login whose result is not looked at
OrderLogin_NoGate ==
    /\ order.pc = "login"
    /\ \E draw \in LoginOutcomes :
          order' = [order EXCEPT
              !.pc = "purchase",
              !.calls.login = @ + 1,
              !.login_success = Some(simulate_servimed_login(draw))]
    /\ UNCHANGED <<nextId, queue, backend, workers, lastView, runs, losses,
                   lastSubmit, api, spider>>

\* step 1: the simulated login
OrderLogin ==
    /\ order.pc = "login"
    /\ \E draw \in LoginOutcomes :
          LET login_success == simulate_servimed_login(draw)
              run == [order EXCEPT !.calls.login = @ + 1,
                                   !.login_success = Some(login_success)]
          IN  IF ~login_success
              THEN OrderFails(run, <<"Falha no login do Servimed">>)
              ELSE order' = [run EXCEPT !.pc = "purchase"]
    /\ UNCHANGED <<nextId, queue, backend, workers, lastView, runs, losses,
                   lastSubmit, api, spider>>

\* step 2: the simulated purchase
OrderPurchase ==
    /\ order.pc = "purchase"
    /\ order' = [order EXCEPT
           !.pc = "create",
           !.calls.purchase = @ + 1,
           !.order_result =
               Some(simulate_product_purchase(order.task_data.produtos[1]))]
    /\ UNCHANGED <<nextId, queue, backend, workers, lastView, runs, losses,
                   lastSubmit, api, spider>>

\* step 3: the order is created in the challenge API
OrderCreate ==
    /\ order.pc = "create"
    /\ \E r \in CreateResponses :
          order' = [order EXCEPT
              !.pc = "update",
              !.calls.create = @ + 1,
              !.challenge_order =
                  Some(create_challenge_order(order.task_data.produtos[1], r))]
    /\ UNCHANGED <<nextId, queue, backend, workers, lastView, runs, losses,
                   lastSubmit, api, spider>>

\* an update step that takes a refused PATCH for an error of the run
OrderUpdate_Fatal ==
    /\ order.pc = "update"
    /\ LET challenge_order == order.challenge_order[1]
       IN  IF challenge_order.id = None
           THEN OrderFails(order, <<"'id'">>)
           ELSE \E r \in UpdateResponses :
                   LET update_result == update_challenge_order(r)
                       run == [order EXCEPT
                                  !.calls.update = @ + 1,
                                  !.update_result = Some(update_result)]
                   IN  IF ~update_result
                       THEN OrderFails(run, <<"Falha na atualização">>)
                       ELSE order' = [run EXCEPT
                                !.pc = "callback",
                                !.calls.confirm = @ + 1,
                                !.confirmation =
                                    Some(OrderResponse(challenge_order.id[1],
                                                       "pedido_realizado"))]
    /\ UNCHANGED <<nextId, queue, backend, workers, lastView, runs, losses,
                   lastSubmit, api, spider>>

\* steps 4 and 5: challenge_order["id"] is read (KeyError when the answer
\* had none), the order is updated by PATCH, the confirmation is built
OrderUpdate ==
    /\ order.pc = "update"
    /\ LET challenge_order == order.challenge_order[1]
       IN  IF challenge_order.id = None
           THEN OrderFails(order, <<"'id'">>)
           ELSE \E r \in UpdateResponses :
                   LET update_result == update_challenge_order(r)
                   IN  order' = [order EXCEPT
                           !.pc = "callback",
                           !.calls.update = @ + 1,
                           !.calls.confirm = @ + 1,
                           !.update_result = Some(update_result),
                           !.confirmation =
                               Some(OrderResponse(challenge_order.id[1],
                                                  "pedido_realizado"))]
    /\ UNCHANGED <<nextId, queue, backend, workers, lastView, runs, losses,
                   lastSubmit, api, spider>>

\* a callback step that posts the confirmation again when the first POST
\* was not accepted
OrderCallback_Retry ==
    /\ order.pc = "callback"
    /\ \E r \in SendResponses :
          LET callback_success == send_callback(r)
          IN  order' = [order EXCEPT
                  !.pc = "done",
                  !.calls.callback = IF callback_success THEN @ + 1 ELSE @ + 2,
                  !.posted = order.confirmation,
                  !.response = Some(r),
                  !.outcome = "returned",
                  !.result = Some(CompletedResult(order.task_data,
                                                  order.challenge_order[1],
                                                  order.confirmation[1],
                                                  callback_success))]
    /\ UNCHANGED <<nextId, queue, backend, workers, lastView, runs, losses,
                   lastSubmit, api, spider>>

\* step 6: the confirmation is posted to the callback url and the result
\* is returned
OrderCallback ==
    /\ order.pc = "callback"
    /\ \E r \in SendResponses :
          LET callback_success == send_callback(r)
          IN  order' = [order EXCEPT
                  !.pc = "done",
                  !.calls.callback = @ + 1,
                  !.posted = order.confirmation,
                  !.response = Some(r),
                  !.outcome = "returned",
                  !.result = Some(CompletedResult(order.task_data,
                                                  order.challenge_order[1],
                                                  order.confirmation[1],
                                                  callback_success))]
    /\ UNCHANGED <<nextId, queue, backend, workers, lastView, runs, losses,
                   lastSubmit, api, spider>>

\* the caller has the returned dict; the next call can be made
OrderReturn ==
    /\ order.pc = "done"
    /\ order' = IdleOrder
    /\ UNCHANGED <<nextId, queue, backend, workers, lastView, runs, losses,
                   lastSubmit, api, spider>>

\* ------------------------------------------------------ ServimedApiSpider
\* what the token endpoint may answer the spider: a request error, or a
\* response with a status and a body that is JSON or not and holds an
\* access_token or not
SpiderAuthResponses ==
    [err : BOOLEAN, status : {200, 204, 401}, json : BOOLEAN,
     access_token : {None, Some("tok"), Some("tok2")}]

\* the elements of the list the products endpoint returns: a JSON value
\* that is not an object (None), or an object with the fields of a Product
SpiderRecords ==
    {None} \cup {Some([id |-> i, estoque |-> e]) :
                     i \in 1..MaxRecords, e \in {-1, 0}}

SpiderRecordLists == UNION {[1..n -> SpiderRecords] : n \in 0..MaxRecords}

\* what the products endpoint may answer the spider; body is None for a
\* JSON value that is not a list
SpiderProductResponses ==
    [err : BOOLEAN, status : {200, 500}, json : BOOLEAN,
     body : Opt(SpiderRecordLists)]

\* the engine hands a response with a 2xx status to the callback of its
\* request, and every other outcome to the errback
ToCallback(r) == ~r.err /\ r.status \in 200..299

\* Product(**product_data) for an object: the validators of the model
ProductValid(product_data) == product_data[1].estoque >= 0

\* the loop of parse_products: a valid record is yielded, an object that
\* fails validation is logged and skipped; for an element that is not an
\* object the log line of the handler raises (product_data.get) and the
\* loop is left
RECURSIVE ParseRecords(_)
ParseRecords(products_data) ==
    IF products_data = <<>> THEN [items |-> <<>>, raised |-> FALSE]
    ELSE LET product_data == Head(products_data)
         IN  IF product_data = None
             THEN [items |-> <<>>, raised |-> TRUE]
             ELSE LET rest == ParseRecords(Tail(products_data))
                  IN  IF ProductValid(product_data)
                      THEN [items |-> <<product_data[1]>> \o rest.items,
                            raised |-> rest.raised]
                      ELSE rest

\* create_products_request: the GET with the Authorization header
create_products_request(access_token) ==
    [method |-> "GET", authorization |-> Bearer(access_token)]

\* the spider: where it is, its access_token, the responses it was given,
\* the products request it made, the items it yielded and why it closed
IdleSpider == [pc |-> "init", access_token |-> None, auth |-> None,
               request |-> None, products |-> None, items |-> <<>>,
               reason |-> "none"]

\* raise CloseSpider(reason)
CloseSpider(s, reason) == spider' = [s EXCEPT !.pc = "closed", !.reason = reason]

\* start_requests: the authentication request is sent
start_requests ==
    /\ spider.pc = "init"
    /\ spider' = [spider EXCEPT !.pc = "auth"]
    /\ UNCHANGED <<nextId, queue, backend, workers, lastView, runs, losses,
                   lastSubmit, order, api>>

\* parse_auth_response: the callback of the authentication request
parse_auth_response ==
    /\ spider.pc = "auth"
    /\ \E r \in SpiderAuthResponses :
          /\ ToCallback(r)
          /\ LET s == [spider EXCEPT !.auth = Some(r)]
             IN  IF r.status # 200
                 THEN CloseSpider(s, "Erro na autenticação")
                 ELSE IF ~r.json
                 THEN CloseSpider(s, "Resposta de autenticação inválida")
                 ELSE IF r.access_token = None
                 THEN CloseSpider(s, "Erro na autenticação")
                 ELSE spider' = [s EXCEPT
                          !.pc = "products",
                          !.access_token = r.access_token,
                          !.request =
                              Some(create_products_request(r.access_token))]
    /\ UNCHANGED <<nextId, queue, backend, workers, lastView, runs, losses,
                   lastSubmit, order, api>>

\* handle_auth_error: the errback of the authentication request
handle_auth_error ==
    /\ spider.pc = "auth"
    /\ \E r \in SpiderAuthResponses :
          /\ ~ToCallback(r)
          /\ CloseSpider([spider EXCEPT !.auth = Some(r)],
                         "Falha na requisição de autenticação")
    /\ UNCHANGED <<nextId, queue, backend, workers, lastView, runs, losses,
                   lastSubmit, order, api>>

\* parse_products: the callback of the products request
parse_products ==
    /\ spider.pc = "products"
    /\ \E r \in SpiderProductResponses :
          /\ ToCallback(r)
          /\ LET s == [spider EXCEPT !.products = Some(r)]
             IN  IF r.status # 200
                 THEN CloseSpider(s, "Erro no processamento")
                 ELSE IF ~r.json
                 THEN CloseSpider(s, "Resposta de produtos inválida")
                 ELSE IF r.body = None
                 THEN CloseSpider(s, "Erro no processamento")
                 ELSE LET out == ParseRecords(r.body[1])
                      IN  CloseSpider([s EXCEPT !.items = out.items],
                                      IF out.raised
                                      THEN "Erro no processamento"
                                      ELSE "finished")
    /\ UNCHANGED <<nextId, queue, backend, workers, lastView, runs, losses,
                   lastSubmit, order, api>>

\* handle_products_error: the errback of the products request
handle_products_error ==
    /\ spider.pc = "products"
    /\ \E r \in SpiderProductResponses :
          /\ ~ToCallback(r)
          /\ CloseSpider([spider EXCEPT !.products = Some(r)],
                         "Falha na requisição de produtos")
    /\ UNCHANGED <<nextId, queue, backend, workers, lastView, runs, losses,
                   lastSubmit, order, api>>

\* ---------------------------------------------------------- specifications
Init ==
    /\ nextId = 1
    /\ queue = <<>>
    /\ backend = [id \in TaskIds |-> PendingMeta]
    /\ workers = [w \in Workers |-> IdleWorker]
    /\ lastView = NoView
    /\ runs = [id \in TaskIds |-> 0]
    /\ losses = 0
    /\ lastSubmit = NoSubmit
    /\ order = IdleOrder
    /\ api = IdleApi
    /\ spider = IdleSpider

Submit == \E b \in SampleBodies : create_task(b)

Poll == \E id \in TaskIds : get_task_status(id)

WorkerStep(w) ==
    \/ Claim(w)
    \/ Signup(w)
    \/ Authenticate(w)
    \/ Extract(w)
    \/ Callback(w)
    \/ Ack(w)

Next ==
    \/ Submit
    \/ Poll
    \/ \E w \in Workers : Claim(w)
    \/ \E w \in Workers : Signup(w)
    \/ \E w \in Workers : Authenticate(w)
    \/ \E w \in Workers : Extract(w)
    \/ \E w \in Workers : Callback(w)
    \/ \E w \in Workers : Ack(w)
    \/ \E w \in Workers : WorkerLost(w)

\* the service: submissions, polls, workers and worker losses
Spec == Init /\ [][Next]_vars

SubmitAny == \E b \in Bodies : create_task(b)

\* the endpoint alone, over every body
SubmitSpec == Init /\ [][SubmitAny]_vars

LiveNext ==
    \/ Submit
    \/ \E w \in Workers : WorkerStep(w)
    \/ \E w \in Workers : WorkerLost(w)

\* fair scheduling: a worker that can take a step eventually takes one
LiveSpec == Init /\ [][LiveNext]_vars /\ \A w \in Workers : WF_vars(WorkerStep(w))

OrderNext ==
    \/ \E td \in OrderTaskData : execute_order(td)
    \/ OrderLogin
    \/ OrderPurchase
    \/ OrderCreate
    \/ OrderUpdate
    \/ OrderCallback
    \/ OrderReturn

\* execute_order called with task data, as execute_order_task calls it
OrderSpec == Init /\ [][OrderNext]_vars

\* the body of a scraping request
ScrapingBody ==
    [EmptyBody EXCEPT !.usuario = Some(<<"a">>), !.senha = Some(<<"x">>),
                      !.callback_url = Some(<<"https://", "cb">>)]

\* task data for execute_order: complete with one item, complete with two
\* items, and without the password
SampleTaskData ==
    LET full == [task_id |-> None, usuario |-> Some(<<"a">>),
                 senha |-> Some(<<"x">>), id_pedido |-> Some(<<"P", "1">>),
                 produtos |-> Some(<<[GoodItem EXCEPT !.quantidade = Some(1)]>>),
                 callback_url |-> Some(<<"https://", "cb">>)]
    IN  { full,
          [full EXCEPT !.produtos =
               Some(<<[GoodItem EXCEPT !.quantidade = Some(1)],
                      [GoodItem EXCEPT !.quantidade = Some(0)]>>)],
          [full EXCEPT !.senha = None] }

PipelinesNext ==
    \/ create_task(ScrapingBody)
    \/ \E w \in Workers : Claim(w)
    \/ \E w \in Workers : Signup(w)
    \/ \E w \in Workers : Authenticate(w)
    \/ \E w \in Workers : Extract(w)
    \/ \E w \in Workers : Callback(w)
    \/ \E w \in Workers : Ack(w)
    \/ \E td \in SampleTaskData : execute_order(td)
    \/ OrderLogin
    \/ OrderPurchase
    \/ OrderCreate
    \/ OrderUpdate
    \/ OrderCallback
    \/ OrderReturn

\* the two pipelines side by side: scraping tasks run by the workers and
\* calls of execute_order
PipelinesSpec == Init /\ [][PipelinesNext]_vars

\* the answers of the signup endpoint that _create_user_signup reports as
\* not successful
RefusedSignups == {r \in SignupResponses : ~_create_user_signup(r)}

RefusedNext ==
    \/ create_task(ScrapingBody)
    \/ \E w \in Workers : Claim(w)
    \/ \E w \in Workers : SignupFrom(w, RefusedSignups)
    \/ \E w \in Workers : Authenticate(w)
    \/ \E w \in Workers : Extract(w)
    \/ \E w \in Workers : Callback(w)
    \/ \E w \in Workers : Ack(w)
    \/ \E w \in Workers : WorkerLost(w)

\* the runs of scraping tasks when no signup succeeds
RefusedSpec == Init /\ [][RefusedNext]_vars

\* the instants datetime.now() can show
Instants == 0..MaxClock

\* the latest instant a response carries: the clock does not run backwards
Clock ==
    LET a == IF "created_at" \in DOMAIN lastSubmit
             THEN lastSubmit.created_at ELSE 0
        b == IF "created_at" \in DOMAIN lastView
             THEN lastView.created_at ELSE 0
    IN  IF a >= b THEN a ELSE b

\* a response with created_at=datetime.now()
Stamped(response, now) ==
    IF response.code = 200 THEN [created_at |-> now] @@ response
    ELSE response

\* POST /scraping answered at the instant now
create_task_at(b, now) ==
    /\ nextId <= MaxTasks
    /\ now >= Clock
    /\ LET d == Dispatch(b, nextId)
       IN  /\ queue' = queue \o d.sent
           /\ nextId' = nextId + Len(d.sent)
           /\ lastSubmit' = Stamped(d.reply, now)
    /\ UNCHANGED <<backend, workers, lastView, runs, losses, order, api,
                   spider>>

\* GET /scraping/{task_id} answered at the instant now
get_task_status_at(task_id, now) ==
    /\ now >= Clock
    /\ LET task_result == AsyncResult(task_id)
       IN  lastView' =
               IF NotTaskResult(task_result)
               THEN [code |-> 404, task_id |-> task_id]
               ELSE Stamped(StatusView(task_id, task_result), now)
    /\ UNCHANGED <<nextId, queue, backend, workers, runs, losses, lastSubmit,
                   order, api, spider>>

ClockNext ==
    \/ \E now \in Instants : create_task_at(ScrapingBody, now)
    \/ \E id \in 1..MaxTasks : \E now \in Instants : get_task_status_at(id, now)
    \/ \E w \in Workers : Claim(w)
    \/ \E w \in Workers : Signup(w)
    \/ \E w \in Workers : Authenticate(w)
    \/ \E w \in Workers : Extract(w)
    \/ \E w \in Workers : Callback(w)
    \/ \E w \in Workers : Ack(w)

\* the service with the creation time its responses carry
ClockSpec == Init /\ [][ClockNext]_vars

SpiderNext ==
    \/ start_requests
    \/ parse_auth_response
    \/ handle_auth_error
    \/ parse_products
    \/ handle_products_error

\* one crawl of ServimedApiSpider
SpiderSpec == Init /\ [][SpiderNext]_vars

\* the entries the result store can hold under an id: every state of a
\* Celery task, with the meta that goes with it
ProgressInfos ==
    {None}
    \cup {Some([progress |-> p, message |-> m]) :
              p \in {0, 50}, m \in {<<"Autenticando">>, <<"Extraindo">>}}
    \cup {Some([progress |-> p]) : p \in {0, 50}}
    \cup {Some([message |-> m]) : m \in {<<"Autenticando">>, <<"Extraindo">>}}

StoredMetas ==
    {PendingMeta}
    \cup {[state |-> "PROGRESS", info |-> i] : i \in ProgressInfos}
    \cup {[state |-> s, info |-> None] : s \in {"STARTED", "REVOKED"}}
    \cup {[state |-> "RETRY", info |-> Some([msg |-> <<"timeout">>])]}
    \cup {TaskMeta("returned", ScrapingResult(1, p, None)) : p \in ProductLists}
    \cup {TaskMeta("raised", <<"Erro na tarefa de scraping: ", e>>) :
              e \in {"Falha na autenticação OAuth2",
                     "Nenhum produto extraído"}}

\* the store takes an entry for an id
store_result(id, meta) ==
    /\ backend' = [backend EXCEPT ![id] = meta]
    /\ UNCHANGED <<nextId, queue, workers, lastView, runs, losses, lastSubmit,
                   order, api, spider>>

StateNext ==
    \/ \E id \in 1..MaxTasks : \E meta \in StoredMetas : store_result(id, meta)
    \/ Poll

\* get_task_status over every entry the store can hold
StateSpec == Init /\ [][StateNext]_vars

\* the answers of the token endpoint, with a second token
TwoTokenResponses ==
    AuthResponses
    \cup [exc : {FALSE}, status_code : {200}, access_token : {Some("tok2")}]

TokenNext ==
    \/ create_task(ScrapingBody)
    \/ \E w \in Workers : Claim(w)
    \/ \E w \in Workers : Signup(w)
    \/ \E w \in Workers : AuthenticateFrom(w, TwoTokenResponses)
    \/ \E w \in Workers : Extract(w)
    \/ \E w \in Workers : Callback(w)
    \/ \E w \in Workers : Ack(w)
    \/ \E w \in Workers : WorkerLost(w)

\* the runs of scraping tasks, where two runs may be given different tokens
TokenSpec == Init /\ [][TokenNext]_vars

PollNext ==
    \/ create_task(ScrapingBody)
    \/ \E id \in 1..MaxTasks : get_task_status_begin(id)
    \/ get_task_status_step
    \/ \E w \in Workers : WorkerStep(w)
    \/ \E w \in Workers : WorkerLost(w)

\* the service with get_task_status taken one backend read at a time, so
\* that worker steps fall between the reads of one call
PollSpec == Init /\ [][PollNext]_vars

ReturnNext ==
    \/ create_task_delay(ScrapingBody)
    \/ create_task_return
    \/ \E w \in Workers : WorkerStep(w)
    \/ \E w \in Workers : WorkerLost(w)

\* the service with create_task taken in two steps, .delay() and the
\* return of the response, so that worker steps fall between them
ReturnSpec == Init /\ [][ReturnNext]_vars

\* ------------------------------------------------------------------ claims
Terminal(v) == v.code = 200 /\ v.status \in {"completed", "failed"}

Stored(id) == backend[id].state \in {"SUCCESS", "FAILURE"}

\* C1: every submitted body that is a valid Scraping Request or a valid Order
\* Request is answered 200 with a task id and status pending, and no later
\* status call for an id create_task returned answers anything but a view.
C1_ValidSubmitResolvable ==
    /\ (lastSubmit.called
        /\ (ScrapingTaskRequest(lastSubmit.body) # None
            \/ OrderRequest(lastSubmit.body) # None))
       => (lastSubmit.code = 200 /\ lastSubmit.status = "pending"
           /\ lastSubmit.task_id \in Issued)
    /\ lastView.task_id \in Issued => lastView.code = 200

\* C2: in every status view, failed comes with an error and no result,
\* completed with a result and no error, any other status with neither.
C2_ResultErrorMatchStatus ==
    lastView.code = 200 =>
        /\ lastView.status = "failed"
              => (lastView.error # None /\ lastView.result = None)
        /\ lastView.status = "completed"
              => (lastView.result # None /\ lastView.error = None)
        /\ lastView.status \notin {"failed", "completed"}
              => (lastView.error = None /\ lastView.result = None)

\* a failed task has been polled
C2_Witness ==
    /\ lastView.code = 200
    /\ lastView.status = "failed"
    /\ lastView.error # None
    /\ lastView.task_id \in Issued

\* C3: a status call for an id create_task never returned answers 404.
C3_UnknownIdNotFound ==
    (lastView.code # 0 /\ lastView.task_id \notin Issued) => lastView.code = 404

CarriesOrder(b) == b.produtos # None /\ b.id_pedido # None

\* C4: create_task takes the order branch exactly for the bodies that carry
\* produtos and id_pedido, and the scraping branch for all others; a body
\* carrying both is never enqueued as execute_scraping.
C4_DispatchByShape ==
    /\ lastSubmit.branch = "order" => CarriesOrder(lastSubmit.body)
    /\ lastSubmit.branch = "scraping" => ~CarriesOrder(lastSubmit.body)
    /\ lastSubmit.enqueued = "execute_scraping" => ~CarriesOrder(lastSubmit.body)

\* C5: an order body whose produtos list is empty is refused and nothing is
\* enqueued for it.
C5_EmptyProdutosRejected ==
    (lastSubmit.called /\ CarriesOrder(lastSubmit.body)
     /\ lastSubmit.body.produtos = Some(<<>>))
    => (lastSubmit.code # 200 /\ lastSubmit.enqueued = "none")

BadCallback(b) == b.callback_url # None /\ ~StartsWithHttp(b.callback_url[1])

EmptyCredential(b) == b.usuario = Some(<<>>) \/ b.senha = Some(<<>>)

BadQuantity(b) ==
    /\ b.produtos # None
    /\ \E k \in 1..Len(b.produtos[1]) : b.produtos[1][k].quantidade < 1

\* C6: a body with a callback URL that is not http(s), an empty usuario or
\* senha, or an item of quantidade < 1 is refused and nothing is enqueued.
C6_InvalidFieldsRejected ==
    (lastSubmit.called
     /\ (BadCallback(lastSubmit.body) \/ EmptyCredential(lastSubmit.body)
         \/ BadQuantity(lastSubmit.body)))
    => (lastSubmit.code # 200 /\ lastSubmit.enqueued = "none")

\* C7: once a status call has answered completed or failed for an id, the
\* task is not run again and the next status call for the id answers the same.
C7_TerminalAbsorbing ==
    [][Terminal(lastView) =>
          /\ runs'[lastView.task_id] = runs[lastView.task_id]
          /\ lastView'.task_id = lastView.task_id => lastView' = lastView]_vars

\* C8: from a view that is not terminal, the next view of the same task
\* never shows less progress.
C8_ProgressNonDecreasing ==
    [][(/\ lastView.code = 200
        /\ ~Terminal(lastView)
        /\ lastView'.code = 200
        /\ lastView'.task_id = lastView.task_id)
       => lastView'.progress >= lastView.progress]_vars

\* a task was polled while pending and its run has since been stored: the
\* next poll of it shows another state
C8_Witness ==
    /\ lastView.code = 200
    /\ lastView.status = "pending"
    /\ lastView.task_id \in Issued
    /\ Stored(lastView.task_id)

\* C9: in every status view progress is 1.0 exactly when the status is
\* completed, 0.0 when it is pending and in [0,1) when it is processing.
C9_ProgressMatchesStatus ==
    lastView.code = 200 =>
        /\ lastView.progress = 100 <=> lastView.status = "completed"
        /\ lastView.status = "pending" => lastView.progress = 0
        /\ lastView.status = "processing"
              => (lastView.progress >= 0 /\ lastView.progress < 100)

\* a completed task has been polled
C9_Witness ==
    /\ lastView.code = 200
    /\ lastView.status = "completed"
    /\ lastView.progress = 100

\* C10: under fair scheduling every task create_task accepted is claimed and
\* its run is stored as SUCCESS or FAILURE; every run a worker starts ends,
\* and it ends only after that store.
C10_AcceptedEventuallyTerminal ==
    /\ \A id \in 1..MaxTasks :
          (id \in Issued) ~> (runs[id] >= 1 /\ Stored(id))
    /\ \A w \in Workers :
          (workers[w].pc # "idle") ~> (workers[w].pc = "idle")
    /\ [](\A w \in Workers :
             workers[w].pc = "ack" => Stored(workers[w].msg[1].id))

\* a task has run to its end after a redelivery and every worker is idle
C10_Witness ==
    /\ \E id \in Issued : runs[id] >= 2 /\ Stored(id)
    /\ \A w \in Workers : workers[w].pc = "idle"
    /\ queue = <<>>

\* the run of worker w authenticated and extracted a non-empty list
Extracted(w) ==
    /\ workers[w].pc = "callback"
    /\ workers[w].auth_token # None
    /\ workers[w].products # <<>>

\* the run of worker w is stored and reported as completed with the products
\* it extracted, and the payload it posted carries their count
CompletedWith(w) ==
    LET id == workers[w].msg[1].id
        view == StatusView(id, AsyncResult(id))
        n == Len(workers[w].products)
    IN  /\ workers[w].pc = "ack"
        /\ n >= 1
        /\ view.code = 200
        /\ view.status = "completed"
        /\ view.result # None
        /\ view.result[1].total_products = n
        /\ view.result[1].products = workers[w].products
        /\ workers[w].posted # None
        /\ workers[w].posted[1].total_count = n
        /\ workers[w].posted[1].products = workers[w].products

AuthFailed(w) == workers[w].pc = "ack" /\ workers[w].auth_token = None

\* C12: when the Credential Verifier fails (non-200 answer, no access_token
\* or exception) the task is reported failed with the authentication error
\* and a null result, the run authenticated exactly once and it neither
\* extracted products nor posted to the callback.
C12_AuthFailureStopsRun ==
    \A w \in Workers :
        AuthFailed(w) =>
            LET id == workers[w].msg[1].id
                view == StatusView(id, AsyncResult(id))
            IN  /\ view.code = 200
                /\ view.status = "failed"
                /\ view.error =
                       Some(<<"Erro na tarefa de scraping: ",
                              "Falha na autenticação OAuth2">>)
                /\ view.result = None
                /\ workers[w].calls.auth = 1
                /\ workers[w].calls.extract = 0
                /\ workers[w].calls.callback = 0
                /\ workers[w].posted = None

\* a run has ended at the authentication step of a task that an earlier run,
\* lost before its acknowledgement, had completed
C12_Witness ==
    \E w \in Workers :
        /\ AuthFailed(w)
        /\ workers[w].calls.auth = 1
        /\ runs[workers[w].msg[1].id] >= 2
        /\ backend[workers[w].msg[1].id].state = "FAILURE"

\* C13: when the callback delivery fails (non-2xx answer or exception) after
\* authentication and extraction succeeded, the task is still reported
\* completed, its result says callback_sent = false and the delivery outcome
\* is recorded in callback_response.
C13_FailedCallbackRecorded ==
    \A w \in Workers :
        (/\ workers[w].pc = "ack"
         /\ workers[w].calls.callback = 1
         /\ backend[workers[w].msg[1].id].state = "SUCCESS"
         /\ backend[workers[w].msg[1].id].info[1].callback_response.status
                # "success")
        => LET id == workers[w].msg[1].id
               view == StatusView(id, AsyncResult(id))
           IN  /\ view.code = 200
               /\ view.status = "completed"
               /\ view.result[1].callback_response.status
                      \in {"warning", "error"}
               /\ view.result[1].callback_sent = FALSE

\* the run of execute_order has ended on a missing required field, a failed
\* login or an exception of one of its steps
OrderRunFailure ==
    /\ order.pc = "done"
    /\ \/ ~AllRequired(order.task_data)
       \/ (order.calls.login = 1 /\ order.calls.purchase = 0)
       \/ (order.challenge_order # None /\ order.challenge_order[1].id = None)

\* the status view of a task whose function ended as the order run did
OrderView == StatusView(1, TaskMeta(order.outcome, order.result[1]))

\* C14: an order run that hits a missing required field, a login failure or
\* an exception leaves its task Failed: the status view says failed, with a
\* non-null error and a null result, and not completed.
C14_OrderFailureReportedFailed ==
    OrderRunFailure =>
        /\ OrderView.code = 200
        /\ OrderView.status = "failed"
        /\ OrderView.status # "completed"
        /\ OrderView.error # None
        /\ OrderView.result = None

\* r is the result of an order run that went through: the confirmation, the
\* id of the created order in both places, and the delivery flag
ConfirmedOrderResult(r) ==
    /\ "confirmation" \in DOMAIN r
    /\ r.confirmation.status = "pedido_realizado"
    /\ "challenge_order_id" \in DOMAIN r
    /\ r.confirmation.codigo_confirmacao = StrInt(r.challenge_order_id)
    /\ "callback_sent" \in DOMAIN r
    /\ r.callback_sent \in BOOLEAN

\* C15: the task of a submitted order (one or more items), once completed,
\* carries result.confirmation.status = "pedido_realizado" and
\* result.confirmation.codigo_confirmacao equal to the id of the created
\* order, also given as challenge_order_id, and a callback_sent flag.
C15_OrderCompletedConfirmed ==
    \A id \in Issued :
        (/\ lastSubmit.task_id = id
         /\ OrderRequest(lastSubmit.body) # None
         /\ lastView.code = 200
         /\ lastView.task_id = id
         /\ lastView.status = "completed")
        => ConfirmedOrderResult(lastView.result[1])

\* C16: every task is claimed and executed by one worker only: whatever the
\* interleaving, worker losses and redeliveries included, no task id is
\* claimed a second time, neither while a worker holds it nor afterwards.
C16_ClaimedAtMostOnce ==
    /\ \A id \in TaskIds : runs[id] <= 1
    /\ \A w1, w2 \in Workers :
          (/\ w1 # w2
           /\ workers[w1].pc # "idle"
           /\ workers[w2].pc # "idle")
          => workers[w1].msg[1].id # workers[w2].msg[1].id

\* the response of handler a shows one of the backend entries a has read
OfOneState(a) ==
    /\ a.view.code = 200
    /\ \E meta \in a.seen : a.view = StatusView(a.task_id, meta)

\* C17: whatever worker writes fall between the reads of a get_task_status
\* call, the response shows one single task state: status, progress,
\* message, result and error all come from one backend entry the call has
\* read, and the call does not end in an internal error.  Stated for the
\* response a call entered now gives if it responds at once, and for the
\* response the call in progress gives at its next step.
C17_ViewOfOneState ==
    /\ api.pc = "idle" =>
          \A id \in 1..MaxTasks :
              StatusRun(StatusCall(id)).pc = "done"
                  => OfOneState(StatusRun(StatusCall(id)))
    /\ api.pc \in StatusReads =>
          (StatusRun(api).pc = "done" => OfOneState(StatusRun(api)))

\* a call has read the entry of a task and, before its remaining reads, a
\* second run of the task has replaced that entry
C17_Witness ==
    /\ api.pc \in StatusReads
    /\ backend[api.task_id] \notin api.seen
    /\ StatusRun(api).pc = "done"
    /\ StatusRun(api).view.code = 200
    /\ StatusRun(api).view # StatusView(api.task_id, backend[api.task_id])

\* the messages of task id in the queue or held by a worker
Copies(id) ==
    Cardinality({k \in 1..Len(queue) : queue[k].id = id})
    + Cardinality({w \in Workers :
                      workers[w].msg # None /\ workers[w].msg[1].id = id})

\* C18 as stated: at the moment create_task returns, one new task exists
\* for the request and no worker has started its pipeline: the task is
\* still pending.
C18_NotStartedAtReturn ==
    api.pc = "return" =>
        /\ Copies(api.reply.task_id) = 1
        /\ Untouched(api.reply.task_id)
        /\ backend[api.reply.task_id].state = "PENDING"

\* C18, amended: when create_task is about to return for an accepted
\* request, one new task was created for it, under the id and with the
\* status pending the response carries (its one message is queued or held
\* by a worker, or its run is already stored), and create_task can return
\* in every such state: it never waits for the pipeline, which a worker may
\* or may not have started by then.
C18_OneTaskNoWait ==
    api.pc = "return" =>
        LET id == api.reply.task_id
        IN  /\ api.reply.code = 200
            /\ api.reply.status = "pending"
            /\ id = nextId - 1
            /\ Copies(id) <= 1
            /\ (Copies(id) = 1 \/ Stored(id))
            /\ ENABLED create_task_return

\* create_task is about to return a task a worker has already run to its end
C18_Witness ==
    /\ api.pc = "return"
    /\ runs[api.reply.task_id] >= 1
    /\ Stored(api.reply.task_id)

\* a worker is executing the pipeline of task id
Running(id) ==
    \E w \in Workers :
        /\ workers[w].pc \in {"signup", "auth", "extract", "callback"}
        /\ workers[w].msg[1].id = id

\* C19: from the moment a worker starts the pipeline of a task until the
\* task is terminal, every get_task_status call on it answers processing,
\* not pending, with the progress and checkpoint message the store holds.
C19_RunningReportedProcessing ==
    [][\A id \in 1..MaxTasks :
          (get_task_status(id) /\ Running(id) /\ ~Stored(id))
          => /\ lastView'.code = 200
             /\ lastView'.status = "processing"
             /\ lastView'.status # "pending"
             /\ lastView'.message = MetaGet(backend[id].info, "message",
                                            <<"Processando...">>)]_vars

C21_TimestampsFollowStatus ==
    lastView.code = 200 =>
        /\ lastView.status = "pending" => lastView.started_at = None
        /\ lastView.status \in {"processing", "completed", "failed"}
              => lastView.started_at # None
        /\ ~Terminal(lastView) => lastView.completed_at = None
        /\ Terminal(lastView) => lastView.completed_at # None

\* the answer r of the products endpoint is one of the failures of the
\* extraction: exception, non-200 status, non-list body, empty list
ExtractionFailure(r) ==
    r.exc \/ r.status_code # 200 \/ ~r.is_list \/ r.items = <<>>

\* the run of worker w ended at the extraction step
ExtractFailed(w) ==
    /\ workers[w].pc = "ack"
    /\ workers[w].auth_token # None
    /\ workers[w].products = <<>>

\* C22: when the extraction yields an empty list, a non-list body, a
\* non-200 answer or an exception, the task is reported failed with the
\* "no products extracted" error and the run attempts no callback delivery.
C22_EmptyExtractionFails ==
    /\ \A r \in ProductResponses :
          ExtractionFailure(r) <=> _extract_products(r) = <<>>
    /\ \A w \in Workers :
          ExtractFailed(w) =>
              LET id == workers[w].msg[1].id
                  view == StatusView(id, AsyncResult(id))
              IN  /\ view.code = 200
                  /\ view.status = "failed"
                  /\ view.error =
                         Some(<<"Erro na tarefa de scraping: ",
                                "Nenhum produto extraído">>)
                  /\ view.result = None
                  /\ workers[w].calls.extract = 1
                  /\ workers[w].calls.callback = 0
                  /\ workers[w].posted = None

\* a run has ended at the extraction step after it obtained a token
C22_Witness ==
    \E w \in Workers :
        /\ ExtractFailed(w)
        /\ workers[w].calls.auth = 1
        /\ workers[w].calls.extract = 1
        /\ backend[workers[w].msg[1].id].state = "FAILURE"

\* one of the five required keys of the task data is absent or empty
MissingField(td) ==
    \E f \in {"usuario", "senha", "id_pedido", "produtos", "callback_url"} :
        td[f] = None \/ td[f][1] = <<>>

\* C23: when username, password, order id, item list or callback url is
\* missing or empty in the task data, execute_order returns at once the
\* failure with the missing-required-fields error, and no login, purchase,
\* order creation, order update or callback has been made.
C23_MissingFieldFailsAtOnce ==
    (order.pc # "idle" /\ MissingField(order.task_data)) =>
        /\ order.pc = "done"
        /\ order.outcome = "returned"
        /\ order.result # None
        /\ order.result[1].status = "failed"
        /\ order.result[1].error = <<"Dados obrigatórios não fornecidos">>
        /\ order.calls = NoOrderCalls
        /\ order.order_result = None
        /\ order.challenge_order = None
        /\ order.confirmation = None
        /\ order.posted = None

\* a run over task data whose only fault is the empty item list has ended
C23_Witness ==
    /\ order.pc = "done"
    /\ order.task_data.produtos = Some(<<>>)
    /\ ~Falsy(order.task_data.usuario)
    /\ ~Falsy(order.task_data.senha)
    /\ ~Falsy(order.task_data.id_pedido)
    /\ ~Falsy(order.task_data.callback_url)
    /\ order.result[1].status = "failed"

\* the run has made one of the steps that follow the login
PastLogin ==
    \/ order.calls.purchase > 0
    \/ order.calls.create > 0
    \/ order.calls.update > 0
    \/ order.calls.callback > 0
    \/ order.order_result # None
    \/ order.challenge_order # None
    \/ order.confirmation # None
    \/ order.posted # None

\* C24: in an order run the purchase, the order creation, the order update
\* and the callback happen only after the login returned success, and after
\* a failed login none of them happens.
C24_LoginGatesPurchase ==
    /\ PastLogin => (order.calls.login = 1 /\ order.login_success = Some(TRUE))
    /\ order.pc \in {"purchase", "create", "update", "callback"}
          => order.login_success = Some(TRUE)
    /\ order.login_success = Some(FALSE) =>
          /\ ~PastLogin
          /\ order.pc = "done"
          /\ order.result[1].status = "failed"
          /\ order.result[1].error = <<"Falha no login do Servimed">>

\* a run has ended at a failed login
C24_Witness ==
    /\ order.pc = "done"
    /\ order.calls.login = 1
    /\ order.login_success = Some(FALSE)

\* every item of produtos has an integer quantidade, as an Order Item has
OrderItems(produtos) ==
    \A k \in 1..Len(produtos) : produtos[k].quantidade # None

\* r is the aggregate of one purchase record per item of produtos, in the
\* order of the items
PurchaseOf(produtos, r) ==
    /\ Len(r.produtos_comprados) = Len(produtos)
    /\ \A k \in 1..Len(produtos) :
          LET rec == r.produtos_comprados[k]
          IN  /\ rec.gtin = produtos[k].gtin
              /\ rec.codigo = produtos[k].codigo
              /\ rec.quantidade = produtos[k].quantidade
              /\ rec.preco_unitario = UnitPrice
              /\ rec.preco_total = UnitPrice * produtos[k].quantidade[1]
              /\ rec.status = "comprado"
    /\ r.total_produtos = Len(produtos)
    /\ r.status = "compra_simulada"

SimulatedOrder(produtos) ==
    [id |-> Some(FallbackOrderId), codigo_fornecedor |-> None,
     status |-> Some("simulado"),
     itens |-> [k \in 1..Len(produtos) |->
                   [gtin |-> produtos[k].gtin, codigo |-> produtos[k].codigo,
                    quantidade |-> produtos[k].quantidade]]]

\* the run holds the synthetic order
HoldsSimulatedOrder ==
    /\ order.challenge_order # None
    /\ order.challenge_order[1].status = Some("simulado")

\* C26: for every outcome of the order-creation call other than a 201 answer
\* (another status, or an exception) create_challenge_order returns the
\* synthetic order with the submitted items, and the run goes on to the
\* update, the confirmation and the callback and ends completed.
C26_CreateFailureFallsBack ==
    /\ \A produtos \in TaskItemLists : \A r \in CreateResponses :
          (r.exc \/ r.status_code # 201)
              => create_challenge_order(produtos, r) = SimulatedOrder(produtos)
    /\ order.calls.create = 1 =>
          /\ order.challenge_order # None
          /\ \/ order.challenge_order[1]
                    = SimulatedOrder(order.task_data.produtos[1])
             \/ order.challenge_order[1].status = None
    /\ HoldsSimulatedOrder =>
          /\ order.pc \in {"update", "callback", "done"}
          /\ order.pc \in {"callback", "done"} =>
                /\ order.calls.update = 1
                /\ order.confirmation =
                       Some(OrderResponse(FallbackOrderId, "pedido_realizado"))
          /\ order.pc = "done" =>
                /\ order.calls.callback = 1
                /\ order.posted = order.confirmation
                /\ order.result[1].status = "completed"
                /\ order.result[1].challenge_order_id = FallbackOrderId

\* a run whose order creation failed has ended completed
C26_Witness ==
    /\ order.pc = "done"
    /\ HoldsSimulatedOrder
    /\ order.calls.callback = 1
    /\ order.result[1].status = "completed"

\* the result of a completed run but for its delivery flag, as the task data
\* and the created order give it
CompletedFields(r) ==
    /\ DOMAIN r = {"task_id", "id_pedido", "status", "challenge_order_id",
                   "confirmation", "callback_sent", "message"}
    /\ r.task_id = order.task_data.task_id
    /\ r.id_pedido = order.task_data.id_pedido
    /\ r.status = "completed"
    /\ r.challenge_order_id = order.challenge_order[1].id[1]
    /\ r.confirmation = [codigo_confirmacao |->
                             StrInt(order.challenge_order[1].id[1]),
                         status |-> "pedido_realizado"]
    /\ r.callback_sent \in BOOLEAN
    /\ r.message = <<"Pedido processado com sucesso">>

\* C27: a failed order update (status other than 200, or an exception) does
\* not fail the run: the confirmation is built, the callback is attempted
\* and the run ends completed, with the result fields it has when the
\* update succeeds.
C27_UpdateFailureNotFatal ==
    /\ \A r \in UpdateResponses :
          update_challenge_order(r) = (~r.exc /\ r.status_code = 200)
    /\ order.calls.update = 1 => order.update_result # None
    /\ order.update_result # None =>
          /\ order.pc \in {"callback", "done"}
          /\ order.confirmation # None
          /\ order.pc = "done" =>
                /\ order.calls.callback = 1
                /\ order.posted = order.confirmation
                /\ CompletedFields(order.result[1])

\* a run whose order update failed has ended completed
C27_Witness ==
    /\ order.pc = "done"
    /\ order.update_result = Some(FALSE)
    /\ order.calls.callback = 1
    /\ order.result[1].status = "completed"

\* the POST to the callback url was answered with a 2xx status
Delivered(r) == ~r.exc /\ r.status_code \in 200..299

\* C28: in an order run the body posted to the callback url is the purchase
\* confirmation {codigo_confirmacao, status} and nothing else; a failed
\* delivery (a status outside 2xx, or an exception) does not fail the run,
\* which still ends completed; and result.callback_sent is true exactly when
\* the delivery succeeded.
C28_CallbackSentIffDelivered ==
    order.calls.callback = 1 =>
        /\ order.posted # None
        /\ DOMAIN order.posted[1] = {"codigo_confirmacao", "status"}
        /\ order.posted = order.confirmation
        /\ order.result[1].status = "completed"
        /\ order.result[1].callback_sent = Delivered(order.response[1])

\* the external status of an internal task state
ExternalStatus(state) ==
    CASE state = "PENDING" -> "pending"
      [] state = "PROGRESS" -> "processing"
      [] state = "SUCCESS" -> "completed"
      [] state = "FAILURE" -> "failed"
      [] OTHER -> "unknown"

\* C29: get_task_status maps the waiting state to pending, the in-progress
\* state to processing, the success state to completed, the failure state to
\* failed and every other internal state to unknown; the message is a fixed
\* text for pending, completed and unknown, the message the store holds for
\* processing, and the error behind a fixed prefix for failed.
C29_StateMapsToOneStatus ==
    [][\A id \in TaskIds :
          get_task_status(id) =>
              LET meta == backend[id]
                  view == lastView'
              IN  /\ view.code = 200
                  /\ view.status = ExternalStatus(meta.state)
                  /\ view.status = "pending" =>
                        view.message = <<"Tarefa aguardando processamento">>
                  /\ view.status = "completed" =>
                        view.message = <<"Tarefa concluída com sucesso">>
                  /\ view.status = "unknown" =>
                        view.message = <<"Status desconhecido">>
                  /\ (/\ view.status = "processing"
                      /\ meta.info # None
                      /\ "message" \in DOMAIN meta.info[1]) =>
                        view.message = meta.info[1].message
                  /\ view.status = "failed" =>
                        /\ view.error # None
                        /\ view.message = <<"Tarefa falhou: ">> \o view.error[1]]_vars

\* a revoked task has been reported unknown and the store now holds a task
\* in progress
C29_Witness ==
    /\ lastView.code = 200
    /\ lastView.task_id = 1
    /\ lastView.status = "unknown"
    /\ backend[1].state = "PROGRESS"

\* the backend entry of the task worker w runs is written in this step
Written(w) ==
    /\ workers[w].msg # None
    /\ backend'[workers[w].msg[1].id] # backend[workers[w].msg[1].id]

\* C30: within one scraping run the steps come one after the other in the
\* order authenticate, extract, deliver, terminal write: the extraction
\* starts only after the authentication returned a token, the delivery
\* starts only after the extraction returned a non-empty list, and the
\* extraction and the delivery both carry the bearer token the
\* authentication of that same run returned.
C30_StepsInOrderWithOneToken ==
    [][\A w \in Workers :
          LET a == workers[w]
              b == workers'[w]
          IN  /\ (b.calls.auth > a.calls.auth) =>
                    /\ a.pc = "auth"
                    /\ a.auth_token = None
                    /\ a.calls.extract = 0 /\ a.calls.callback = 0
                    /\ b.pc = "extract" <=> b.auth_token # None
                    /\ b.pc = "ack" <=> b.auth_token = None
              /\ (b.pc = "extract" /\ a.pc # "extract") =>
                    (b.calls.auth > a.calls.auth)
              /\ (b.calls.extract > a.calls.extract) =>
                    /\ a.pc = "extract"
                    /\ a.calls.auth = 1 /\ a.calls.callback = 0
                    /\ a.auth_token # None
                    /\ b.auth_token = a.auth_token
                    /\ b.headers = Some(<<"Bearer ", a.auth_token[1]>>)
                    /\ b.pc = "callback" <=> b.products # <<>>
                    /\ b.pc = "ack" <=> b.products = <<>>
              /\ (b.pc = "callback" /\ a.pc # "callback") =>
                    (b.calls.extract > a.calls.extract)
              /\ (b.calls.callback > a.calls.callback) =>
                    /\ a.pc = "callback"
                    /\ a.calls.auth = 1 /\ a.calls.extract = 1
                    /\ a.products # <<>>
                    /\ b.auth_token = a.auth_token
                    /\ b.posted # None
                    /\ b.posted[1].products = a.products
                    /\ b.posted[1].authorization
                           = <<"Bearer ", a.auth_token[1]>>
                    /\ b.posted[1].authorization = a.headers[1]
                    /\ b.pc = "ack"
              /\ Written(w) =>
                    /\ a.pc \in {"auth", "extract", "callback"}
                    /\ b.pc = "ack"
                    /\ b.calls.auth + b.calls.extract + b.calls.callback
                         = a.calls.auth + a.calls.extract + a.calls.callback + 1
                    /\ backend'[a.msg[1].id].state = "SUCCESS"
                          <=> b.calls.callback = 1]_vars

\* a run that was given the second token has extracted and delivered
C30_Witness ==
    \E w \in Workers :
        /\ workers[w].pc = "ack"
        /\ workers[w].calls.callback = 1
        /\ workers[w].auth_token = Some("tok2")
        /\ workers[w].posted[1].authorization = <<"Bearer ", "tok2">>
        /\ workers[w].headers = Some(<<"Bearer ", "tok2">>)

\* the purchase step of the run ended in its error outcome
PurchaseFailed ==
    /\ order.order_result # None
    /\ order.order_result[1].status = "erro"

\* C32: an order run reports success (completed, confirmation
\* pedido_realizado, callback sent) only if simulate_product_purchase
\* returned compra_simulada with one record per item; a purchase that ended
\* in its error outcome is never followed by the order creation, a
\* confirmation or a completed result.
C32_SuccessOnlyAfterPurchase ==
    /\ (order.pc = "done" /\ order.result[1].status = "completed") =>
          /\ order.order_result # None
          /\ order.order_result[1].status = "compra_simulada"
          /\ Len(order.order_result[1].produtos_comprados)
                 = Len(order.task_data.produtos[1])
    /\ PurchaseFailed =>
          /\ order.calls.create = 0
          /\ order.challenge_order = None
          /\ order.confirmation = None
          /\ order.posted = None
          /\ order.pc = "done" => order.result[1].status # "completed"

\* the scraping run of worker w is over
RunOver(w) == workers[w].pc = "ack"

\* the order run is over
OrderRunOver == order.pc = "done"

TerminalOf(w) ==
    IF workers[w].auth_token = None
    THEN [state |-> "FAILURE",
          error |-> <<"Erro na tarefa de scraping: ",
                      "Falha na autenticação OAuth2">>]
    ELSE IF workers[w].products = <<>>
    THEN [state |-> "FAILURE",
          error |-> <<"Erro na tarefa de scraping: ",
                      "Nenhum produto extraído">>]
    ELSE [state |-> "SUCCESS", error |-> <<>>]

\* C33: the signup never gates a scraping run: whatever the signup answered
\* (created, already registered, another status, an exception) the
\* authentication is attempted next, and how the run ends is decided by the
\* authentication, the extraction and the delivery alone.
C33_SignupNeverGates ==
    /\ \A r \in SignupResponses : AfterSignup(_create_user_signup(r)) = "auth"
    /\ \A w \in Workers :
          /\ workers[w].pc \in {"auth", "extract", "callback", "ack"}
                => workers[w].calls.signup = 1
          /\ workers[w].pc \in {"extract", "callback", "ack"}
                => workers[w].calls.auth = 1
          /\ RunOver(w) =>
                LET meta == backend[workers[w].msg[1].id]
                IN  /\ meta.state = TerminalOf(w).state
                    /\ meta.state = "FAILURE"
                          => meta.info[1].msg = TerminalOf(w).error
                    /\ meta.state = "SUCCESS"
                          => workers[w].calls.callback = 1

\* a run whose signup was refused has ended completed
C33_Witness ==
    \E w \in Workers :
        /\ RunOver(w)
        /\ workers[w].calls.signup = 1
        /\ workers[w].calls.callback = 1
        /\ backend[workers[w].msg[1].id].state = "SUCCESS"

\* C34: for a task id the created_at get_task_status returns is the same on
\* every poll and is the created_at create_task returned for the task; it
\* does not change with the time of the poll.
C34_CreatedAtStable ==
    (/\ lastSubmit.code = 200
     /\ lastView.code = 200
     /\ lastView.task_id = lastSubmit.task_id)
    => lastView.created_at = lastSubmit.created_at

\* C35: for every task of either kind that reaches a terminal outcome, the
\* task_id inside its result payload is the task id create_task returned
\* for the submission: never null and never another id.
C35_ResultCarriesTaskId ==
    /\ \A w \in Workers :
          (RunOver(w) /\ backend[workers[w].msg[1].id].state = "SUCCESS") =>
              /\ workers[w].msg[1].id \in Issued
              /\ backend[workers[w].msg[1].id].info[1].task_id
                     = workers[w].msg[1].id
    /\ OrderRunOver => order.result[1].task_id # None

\* the authentication response r has status 200 and a body with access_token
TokenGranted(r) ==
    ~r.err /\ r.status = 200 /\ r.json /\ r.access_token # None

\* the records of a product list that pass validation, in their order
ValidRecords(products_data) ==
    LET ok(rec) == rec # None /\ rec[1].estoque >= 0
        kept == SelectSeq(products_data, ok)
    IN  [k \in 1..Len(kept) |-> kept[k][1]]

\* C36: ServimedApiSpider issues the products request only after an
\* authentication response with status 200 whose body has access_token, and
\* the request carries that token; on every other authentication outcome the
\* spider closes without requesting products; and of a product list every
\* record that fails validation is skipped while the others are emitted.
C36_SpiderAuthThenProducts ==
    /\ spider.request # None =>
          /\ spider.auth # None
          /\ TokenGranted(spider.auth[1])
          /\ spider.request[1].authorization
                 = <<"Bearer ", spider.auth[1].access_token[1]>>
    /\ (spider.auth # None /\ ~TokenGranted(spider.auth[1])) =>
          /\ spider.pc = "closed"
          /\ spider.request = None
          /\ spider.products = None
    /\ (/\ spider.pc = "closed"
        /\ spider.products # None
        /\ ~spider.products[1].err
        /\ spider.products[1].status = 200
        /\ spider.products[1].json
        /\ spider.products[1].body # None)
       => spider.items = ValidRecords(spider.products[1].body[1])

\* C37: neither callback dispatcher raises into its pipeline: for every
\* status and every transport or decoding exception _send_to_callback
\* returns a record with status success (200, 201), warning (another
\* status) or error (exception), and send_callback returns true (200, 201,
\* 202) or false (another status, or an exception).
C37_DispatchersNeverRaise ==
    /\ \A r \in CallbackResponses :
          LET out == _send_to_callback(r)
              raised == r.exc \/ (r.status_code \in {200, 201} /\ ~r.decodes)
          IN  /\ out.status \in {"success", "warning", "error"}
              /\ out.status = "error" <=> raised
              /\ out.status = "success"
                    <=> (~raised /\ r.status_code \in {200, 201})
              /\ out.status = "warning"
                    <=> (~raised /\ r.status_code \notin {200, 201})
    /\ \A r \in SendResponses :
          /\ send_callback(r) \in BOOLEAN
          /\ send_callback(r) <=> (~r.exc /\ r.status_code \in {200, 201, 202})
    /\ \A w \in Workers :
          workers[w].calls.callback = 1 =>
              LET meta == backend[workers[w].msg[1].id]
              IN  /\ RunOver(w)
                  /\ meta.state = "SUCCESS"
                  /\ meta.info[1].callback_response.status
                         \in {"success", "warning", "error"}
    /\ order.calls.callback = 1 =>
          /\ OrderRunOver
          /\ order.outcome = "returned"
          /\ order.result[1].status = "completed"
          /\ order.result[1].callback_sent
                 = (~order.response[1].exc
                    /\ order.response[1].status_code \in {200, 201, 202})

\* a scraping run whose delivery ended in an exception and an order run
\* whose delivery ended in an exception have both returned
C37_Witness ==
    /\ \E w \in Workers :
          /\ RunOver(w)
          /\ workers[w].calls.callback = 1
          /\ backend[workers[w].msg[1].id].state = "SUCCESS"
          /\ backend[workers[w].msg[1].id].info[1].callback_response.status
                 = "error"
    /\ OrderRunOver
    /\ order.calls.callback = 1
    /\ order.response[1].exc
    /\ order.result[1].callback_sent = FALSE

====
